---------------------------- MODULE Spec2Model ----------------------------
(***************************************************************************)
(* A model of the DNS wire codec of src/dns/dns_message.py.                *)
(*                                                                         *)
(* bytes objects are sequences of integers 0..255, str objects are         *)
(* sequences of Unicode code points, Python indices are 0-based (the       *)
(* operators below translate to TLA+'s 1-based sequences).  A Python call  *)
(* is an operator returning a record whose field status is "ok" (with the  *)
(* returned values), "raise" (with the exception's type in exc) or, for    *)
(* the calls that contain the while loop of _decode_name, "loop" (the loop *)
(* never exits).                                                           *)
(***************************************************************************)
EXTENDS Integers, Sequences, FiniteSets, TLC

VARIABLES
    in_bytes,     \* Answer.from_bytes: the buffer being decoded
    pc,           \* position of the running call
    offset,       \* Answer.from_bytes: the running offset
    header,       \* Answer.from_bytes: the decoded _Header
    questions,    \* Answer.from_bytes: list of decoded _Question
    answers,      \* Answer.from_bytes: list of decoded _ResourceRecord
    authorities,  \* Answer.from_bytes: list of decoded _ResourceRecord
    additions,    \* Answer.from_bytes: list of decoded _ResourceRecord
    name_cursor,  \* _decode_name: buffer, index and position of a loop that never exits
    arg,          \* arguments of a single call of one of the functions
    ret           \* what that call returned or raised

vars == <<in_bytes, pc, offset, header, questions, answers, authorities,
          additions, name_cursor, arg, ret>>

\* Python's None
None == [status |-> "None"]

-----------------------------------------------------------------------------
(* Python primitives used by the codec *)

Min(a, b) == IF a < b THEN a ELSE b

\* bytes/str slicing s[a:b] for 0 <= a: never raises, clamps at the end
Slice(s, a, b) == SubSeq(s, a + 1, Min(b, Len(s)))

RECURSIVE BitXor(_, _)
\* a ^ b on non-negative integers
BitXor(a, b) ==
    IF a = 0 THEN b
    ELSE IF b = 0 THEN a
    ELSE (((a % 2) + (b % 2)) % 2) + 2 * BitXor(a \div 2, b \div 2)

RECURSIVE BitOr(_, _)
\* a | b on non-negative integers
BitOr(a, b) ==
    IF a = 0 THEN b
    ELSE IF b = 0 THEN a
    ELSE (IF a % 2 = 1 \/ b % 2 = 1 THEN 1 ELSE 0) + 2 * BitOr(a \div 2, b \div 2)

RECURSIVE BitAnd(_, _)
\* a & b on non-negative integers
BitAnd(a, b) ==
    IF a = 0 \/ b = 0 THEN 0
    ELSE (IF a % 2 = 1 /\ b % 2 = 1 THEN 1 ELSE 0) + 2 * BitAnd(a \div 2, b \div 2)

RECURSIVE Pow2(_)
Pow2(n) == IF n = 0 THEN 1 ELSE 2 * Pow2(n - 1)

ShiftLeft(a, n) == a * Pow2(n)
ShiftRight(a, n) == a \div Pow2(n)

Raise(kind) == [status |-> "raise", exc |-> kind]

\* the statements after a call: skipped when the call did not return (the
\* call's result is computed once, as the only element of a set)
Try(r, Rest(_)) ==
    CHOOSE x \in {IF y.status # "ok" THEN y ELSE Rest(y) : y \in {r}} : TRUE

RECURSIVE BigEndian(_)
\* int.from_bytes(b, byteorder='big'); 0 for the empty bytes object
BigEndian(b) ==
    IF b = <<>> THEN 0 ELSE 256 * BigEndian(SubSeq(b, 1, Len(b) - 1)) + b[Len(b)]

\* struct.unpack('!I', b)[0]: the unsigned 32-bit number hi * 65536 + lo, kept
\* as its two 16-bit halves
UnpackU32(b) ==
    IF Len(b) # 4 THEN Raise("struct.error")
    ELSE [status |-> "ok",
          value |-> [hi |-> BigEndian(SubSeq(b, 1, 2)), lo |-> BigEndian(SubSeq(b, 3, 4))]]

\* struct.pack('!B', n)
PackU8(n) ==
    IF n < 0 \/ n > 255 THEN Raise("struct.error")
    ELSE [status |-> "ok", bytes |-> <<n>>]

IsCont(b) == b >= 128 /\ b <= 191

\* number of bytes of the UTF-8 sequence starting at bs[1]; 0 when it is invalid
Utf8SeqLen(bs) ==
    LET b0 == bs[1] IN
    IF b0 < 128 THEN 1
    ELSE IF b0 >= 194 /\ b0 <= 223
        THEN IF Len(bs) >= 2 /\ IsCont(bs[2]) THEN 2 ELSE 0
    ELSE IF b0 >= 224 /\ b0 <= 239
        THEN IF /\ Len(bs) >= 3 /\ IsCont(bs[2]) /\ IsCont(bs[3])
                /\ (b0 = 224 => bs[2] >= 160)
                /\ (b0 = 237 => bs[2] <= 159)
             THEN 3 ELSE 0
    ELSE IF b0 >= 240 /\ b0 <= 244
        THEN IF /\ Len(bs) >= 4 /\ IsCont(bs[2]) /\ IsCont(bs[3]) /\ IsCont(bs[4])
                /\ (b0 = 240 => bs[2] >= 144)
                /\ (b0 = 244 => bs[2] <= 143)
             THEN 4 ELSE 0
    ELSE 0

Utf8CodePoint(bs, n) ==
    IF n = 1 THEN bs[1]
    ELSE IF n = 2 THEN (bs[1] - 192) * 64 + (bs[2] - 128)
    ELSE IF n = 3 THEN (bs[1] - 224) * 4096 + (bs[2] - 128) * 64 + (bs[3] - 128)
    ELSE (bs[1] - 240) * 262144 + (bs[2] - 128) * 4096 + (bs[3] - 128) * 64 + (bs[4] - 128)

\* how many bytes at the start of bs are ASCII
AsciiPrefix(bs) ==
    CHOOSE n \in 0..Len(bs) :
        /\ \A i \in 1..n : bs[i] < 128
        /\ n = Len(bs) \/ bs[n + 1] >= 128

RECURSIVE Utf8Decode(_)
Utf8DecodeSeq(bs, n) ==
    IF n = 0 THEN Raise("UnicodeDecodeError")
    ELSE Try(Utf8Decode(SubSeq(bs, n + 1, Len(bs))), LAMBDA rest:
         [status |-> "ok", str |-> <<Utf8CodePoint(bs, n)>> \o rest.str])

\* bytes.decode('utf-8'): the str, or UnicodeDecodeError; a run of ASCII bytes
\* is a run of the same code points
Utf8Decode(bs) ==
    IF bs = <<>> THEN [status |-> "ok", str |-> <<>>]
    ELSE IF AsciiPrefix(bs) > 0
    THEN Try(Utf8Decode(SubSeq(bs, AsciiPrefix(bs) + 1, Len(bs))), LAMBDA rest:
         [status |-> "ok", str |-> SubSeq(bs, 1, AsciiPrefix(bs)) \o rest.str])
    ELSE Utf8DecodeSeq(bs, Utf8SeqLen(bs))

\* the UTF-8 bytes of one code point (surrogates are not drawn as inputs)
Utf8Char(cp) ==
    IF cp < 128 THEN <<cp>>
    ELSE IF cp < 2048 THEN <<192 + (cp \div 64), 128 + (cp % 64)>>
    ELSE IF cp < 65536
        THEN <<224 + (cp \div 4096), 128 + ((cp \div 64) % 64), 128 + (cp % 64)>>
    ELSE <<240 + (cp \div 262144), 128 + ((cp \div 4096) % 64),
           128 + ((cp \div 64) % 64), 128 + (cp % 64)>>

RECURSIVE Utf8Encode(_)
\* str.encode(); a run of ASCII characters is a run of the same bytes
Utf8Encode(s) ==
    IF s = <<>> THEN <<>>
    ELSE IF AsciiPrefix(s) > 0
    THEN SubSeq(s, 1, AsciiPrefix(s)) \o Utf8Encode(SubSeq(s, AsciiPrefix(s) + 1, Len(s)))
    ELSE Utf8Char(Head(s)) \o Utf8Encode(Tail(s))

\* the index of the first '.' of s, 0 when there is none
FirstDot(s) ==
    IF \A i \in 1..Len(s) : s[i] # 46 THEN 0
    ELSE CHOOSE i \in 1..Len(s) : s[i] = 46 /\ \A j \in 1..(i - 1) : s[j] # 46

RECURSIVE Split(_)
\* str.split('.'): always at least one piece
Split(s) ==
    IF FirstDot(s) = 0 THEN <<s>>
    ELSE <<SubSeq(s, 1, FirstDot(s) - 1)>> \o Split(SubSeq(s, FirstDot(s) + 1, Len(s)))

RECURSIVE JoinWith(_, _)
\* sep.join(tokens) for a one-character separator
JoinWith(tokens, sep) ==
    IF tokens = <<>> THEN <<>>
    ELSE IF Len(tokens) = 1 THEN tokens[1]
    ELSE tokens[1] \o <<sep>> \o JoinWith(Tail(tokens), sep)

\* '.'.join(tokens)
Join(tokens) == JoinWith(tokens, 46)

RECURSIVE DecStr(_)
\* str(n) for n >= 0
DecStr(n) == IF n < 10 THEN <<48 + n>> ELSE DecStr(n \div 10) \o <<48 + (n % 10)>>

HexDigit(d) == IF d < 10 THEN 48 + d ELSE 87 + d

RECURSIVE BytesHex(_)
\* bytes.hex(b)
BytesHex(b) ==
    IF b = <<>> THEN <<>>
    ELSE <<HexDigit(Head(b) \div 16), HexDigit(Head(b) % 16)>> \o BytesHex(Tail(b))

RECURSIVE Concat(_)
\* b''.join(parts)
Concat(parts) ==
    IF parts = <<>> THEN <<>> ELSE Head(parts) \o Concat(Tail(parts))

-----------------------------------------------------------------------------
(* _encode_number, _decode_number *)

MAX_DOUBLE_BYTE_NUMBER == 65535

\* the guard of _encode_number
FitsDoubleByteOffByTwo(number) == 0 <= number /\ number < MAX_DOUBLE_BYTE_NUMBER - 1
FitsDoubleByte(number) == 0 <= number /\ number < MAX_DOUBLE_BYTE_NUMBER

\* struct.pack('!H', number) for a number the guard let through
PackU16(number) == <<number \div 256, number % 256>>

encode_number(number) ==
    IF FitsDoubleByte(number)
    THEN [status |-> "ok", bytes |-> PackU16(number)]
    ELSE Raise("ValueError")

\* struct.unpack('!H', in_bytes)[0]
decode_number(b) ==
    IF Len(b) # 2 THEN Raise("struct.error")
    ELSE [status |-> "ok", value |-> b[1] * 256 + b[2]]

-----------------------------------------------------------------------------
(* _encode_name *)

RECURSIVE EncodeDomains(_)
\* the for loop of _encode_name: a length byte, then the label's bytes
EncodeDomains(domains) ==
    IF domains = <<>> THEN [status |-> "ok", bytes |-> <<>>]
    ELSE Try(PackU8(Len(Head(domains))), LAMBDA len:
         Try(EncodeDomains(Tail(domains)), LAMBDA rest:
         [status |-> "ok",
          bytes |-> len.bytes \o Utf8Encode(Head(domains)) \o rest.bytes]))

encode_name(name) ==
    Try(EncodeDomains(Split(name)), LAMBDA body:
    [status |-> "ok", bytes |-> body.bytes \o <<0>>])

-----------------------------------------------------------------------------
(* _decode_name *)

\* current_byte >> 6 == 3
IsPointer(current_byte) == ShiftRight(current_byte, 6) = 3

\* a variant that clears only bit 15 of the pointer
PointerTargetKeepsBit14(number) == BitXor(number, ShiftLeft(1, 15))

\* _decode_number(...) ^ (3 << 14)
PointerTarget(number) == BitXor(number, ShiftLeft(3, 14))

\* a variant that moves the return offset at every pointer
PointerReturnOffsetEveryPointer(offset_, index) == index + 2

\* if offset == 0: offset = index + 2
PointerReturnOffset(offset_, index) == IF offset_ = 0 THEN index + 2 ELSE offset_

\* if offset == 0: offset = index + 1   (after the loop)
FinalReturnOffset(offset_, index) == IF offset_ = 0 THEN index + 1 ELSE offset_

(* One pass through the body of the while loop at a position where         *)
(* in_bytes[index] exists and is not zero: the next index, the return      *)
(* offset and the label read, or the exception raised.                     *)
NameLoopBody(buf, index, offset_) ==
    IF IsPointer(buf[index + 1])
    THEN Try(decode_number(Slice(buf, index, index + 2)), LAMBDA number:
         [status |-> "ok",
          index  |-> PointerTarget(number.value),
          offset |-> PointerReturnOffset(offset_, index),
          tokens |-> <<>>])
    ELSE Try(Utf8Decode(Slice(buf, index + 1, index + 1 + buf[index + 1])), LAMBDA token:
         [status |-> "ok",
          index  |-> index + buf[index + 1] + 1,
          offset |-> offset_,
          tokens |-> <<token.str>>])

RECURSIVE DecodeNameLoop(_, _, _, _, _)
(* The while loop.  Which branch the loop takes depends on in_bytes and    *)
(* index alone, so a pass that starts at an index an earlier pass started  *)
(* at repeats those passes for ever: seen collects the indices, and the    *)
(* result is then "loop", with the index the endless loop revisits.        *)
DecodeNameLoop(buf, index, offset_, decoded_tokens, seen) ==
    IF index >= Len(buf) THEN Raise("IndexError")
    ELSE IF buf[index + 1] = 0
    THEN [status   |-> "ok",
          decoded_ |-> Join(decoded_tokens),
          offset   |-> FinalReturnOffset(offset_, index)]
    ELSE IF index \in seen THEN [status |-> "loop", buf |-> buf, index |-> index]
    ELSE Try(NameLoopBody(buf, index, offset_), LAMBDA step:
         DecodeNameLoop(buf, step.index, step.offset,
                        decoded_tokens \o step.tokens, seen \cup {index}))

decode_name(buf, offset_) == DecodeNameLoop(buf, offset_, 0, <<>>, {})

-----------------------------------------------------------------------------
(* The enumerations of dns_enums (imported at lines 5-8), with the values  *)
(* of RFC 1035; members take part in arithmetic as their integer values.   *)

MessageType == [QUERY |-> 0, RESPONSE |-> 1]
QueryType == [STANDARD |-> 0, INVERSE |-> 1, STATUS |-> 2]
ResponseType == [NO_ERROR |-> 0, FORMAT_ERROR |-> 1, SERVER_FAILURE |-> 2,
                 NAME_ERROR |-> 3, NOT_IMPLEMENTED |-> 4, REFUSED |-> 5]
RRType == [A |-> 1, NS |-> 2, CNAME |-> 5, SOA |-> 6, PTR |-> 12, MX |-> 15,
           TXT |-> 16, AAAA |-> 28]
RRClass == [IN |-> 1, CS |-> 2, CH |-> 3, HS |-> 4]

\* the values Enum(value) accepts; any other value raises ValueError
Values(enum) == {enum[k] : k \in DOMAIN enum}

\* Enum(value)
EnumOf(enum, value) ==
    IF value \in Values(enum) THEN [status |-> "ok", value |-> value]
    ELSE Raise("ValueError")

-----------------------------------------------------------------------------
(* _Header *)

\* _Header.__init__ with its defaults filled in by the caller
Header(identifier, message_type, question_count, query_type, is_authority_answer, is_truncated, is_recursion_desired, is_recursion_available, response_type, answer_count, authority_count, additional_count) ==
    [identifier             |-> identifier,
     message_type           |-> message_type,
     query_type             |-> query_type,
     is_authority_answer    |-> is_authority_answer,
     is_truncated           |-> is_truncated,
     is_recursion_desired   |-> is_recursion_desired,
     is_recursion_available |-> is_recursion_available,
     response_type          |-> response_type,
     question_count         |-> question_count,
     answer_count           |-> answer_count,
     authority_count        |-> authority_count,
     additional_count       |-> additional_count]

\* a bool used as an int
BoolInt(b) == IF b THEN 1 ELSE 0

\* a variant that puts recursion-desired on bit 9 and truncated on bit 8
FlagsWordSwapped(h) ==
    BitOr(BitOr(BitOr(BitOr(BitOr(BitOr(BitOr(
        ShiftLeft(h.message_type, 15),
        ShiftLeft(h.query_type, 11)),
        ShiftLeft(BoolInt(h.is_authority_answer), 10)),
        ShiftLeft(BoolInt(h.is_truncated), 8)),
        ShiftLeft(BoolInt(h.is_recursion_desired), 9)),
        ShiftLeft(BoolInt(h.is_recursion_available), 7)),
        ShiftLeft(0, 3)),
        ShiftLeft(h.response_type, 0))

\* the flags word of _Header._encode_flags
FlagsWord(h) ==
    BitOr(BitOr(BitOr(BitOr(BitOr(BitOr(BitOr(
        ShiftLeft(h.message_type, 15),
        ShiftLeft(h.query_type, 11)),
        ShiftLeft(BoolInt(h.is_authority_answer), 10)),
        ShiftLeft(BoolInt(h.is_truncated), 9)),
        ShiftLeft(BoolInt(h.is_recursion_desired), 8)),
        ShiftLeft(BoolInt(h.is_recursion_available), 7)),
        ShiftLeft(0, 3)),
        ShiftLeft(h.response_type, 0))

encode_flags(h) == encode_number(FlagsWord(h))

RECURSIVE JoinEncoded(_)
\* b''.join of encoded tokens built in order; the first one that raises ends the call
JoinEncoded(encoded_tokens) ==
    IF encoded_tokens = <<>> THEN [status |-> "ok", bytes |-> <<>>]
    ELSE Try(Head(encoded_tokens), LAMBDA first:
         Try(JoinEncoded(Tail(encoded_tokens)), LAMBDA rest:
         [status |-> "ok", bytes |-> first.bytes \o rest.bytes]))

\* _Header.to_bytes
Header_to_bytes(h) ==
    JoinEncoded(<<encode_number(h.identifier),
                  encode_flags(h),
                  encode_number(h.question_count),
                  encode_number(h.answer_count),
                  encode_number(h.authority_count),
                  encode_number(h.additional_count)>>)

\* _Header.from_bytes
Header_from_bytes(buf, beginning) ==
    LET flags == BigEndian(Slice(buf, beginning + 2, beginning + 4)) IN
    Try(decode_number(Slice(buf, beginning, beginning + 2)), LAMBDA identifier:
    Try(EnumOf(ResponseType, BitAnd(flags, 15)), LAMBDA response_type:
    Try(EnumOf(QueryType, BitAnd(ShiftRight(flags, 11), 15)), LAMBDA query_type:
    Try(EnumOf(MessageType, BitAnd(ShiftRight(ShiftRight(flags, 11), 4), 1)), LAMBDA message_type:
    Try(decode_number(Slice(buf, beginning + 4, beginning + 6)), LAMBDA qcount:
    Try(decode_number(Slice(buf, beginning + 6, beginning + 8)), LAMBDA anscount:
    Try(decode_number(Slice(buf, beginning + 8, beginning + 10)), LAMBDA authcount:
    Try(decode_number(Slice(buf, beginning + 10, beginning + 12)), LAMBDA addcount:
    [status |-> "ok",
     header |-> Header(identifier.value, message_type.value, qcount.value,
                       query_type.value,
                       BitAnd(flags, 1024) # 0,   \* is_authority_answer
                       BitAnd(flags, 512) # 0,    \* is_truncated
                       BitAnd(flags, 256) # 0,    \* is_recursion_desired
                       BitAnd(flags, 128) # 0,    \* is_recursion_available
                       response_type.value, anscount.value, authcount.value,
                       addcount.value),
     offset |-> beginning + 12]))))))))

-----------------------------------------------------------------------------
(* _Question *)

\* _Question.__init__
Question(name, type_) == [name |-> name, type_ |-> type_, class_ |-> RRClass.IN]

\* _Question.to_bytes
Question_to_bytes(q) ==
    JoinEncoded(<<encode_name(q.name),
                  encode_number(q.type_),
                  encode_number(q.class_)>>)

\* _Question.from_bytes
Question_from_bytes(buf, beginning) ==
    Try(decode_name(buf, beginning), LAMBDA name:
    Try(decode_number(Slice(buf, name.offset, name.offset + 2)), LAMBDA number:
    Try(EnumOf(RRType, number.value), LAMBDA type_:
    [status   |-> "ok",
     question |-> Question(name.decoded_, type_.value),
     offset   |-> name.offset + (2 + 2)])))

-----------------------------------------------------------------------------
(* The resource data classes *)

\* _AResourceData.__init__
AResourceData(data_in_bytes) ==
    IF Len(data_in_bytes) # 4 THEN Raise("struct.error")
    ELSE [status |-> "ok",
          data |-> [kind |-> "A",
                    ip |-> Join([i \in 1..4 |-> DecStr(data_in_bytes[i])])]]

\* _AAAAResourceData.__init__
AAAAResourceData(data_in_bytes) ==
    [status |-> "ok",
     data |-> [kind |-> "AAAA",
               ip |-> JoinWith([i \in 1..((Len(data_in_bytes) + 1) \div 2) |->
                                   BytesHex(Slice(data_in_bytes, 2 * (i - 1),
                                                  2 * (i - 1) + 2))], 58)]]

\* _PTRResourceData.__init__
PTRResourceData(data_in_bytes) ==
    Try(decode_name(data_in_bytes, 0), LAMBDA name:
    [status |-> "ok", data |-> [kind |-> "PTR", name |-> name.decoded_]])

\* _NSResourceData.__init__
NSResourceData(buf, offset_) ==
    Try(decode_name(buf, offset_), LAMBDA name:
    [status |-> "ok", data |-> [kind |-> "NS", name |-> name.decoded_]])

\* _SOAResourceData.__init__
SOAResourceData(buf, offset_) ==
    Try(decode_name(buf, offset_), LAMBDA name_server:
    Try(decode_name(buf, name_server.offset), LAMBDA email_addr:
    Try(UnpackU32(Slice(buf, email_addr.offset, email_addr.offset + 4)), LAMBDA serial_number:
    Try(UnpackU32(Slice(buf, email_addr.offset + 4, email_addr.offset + 8)), LAMBDA refresh:
    Try(UnpackU32(Slice(buf, email_addr.offset + 8, email_addr.offset + 12)), LAMBDA retry:
    Try(UnpackU32(Slice(buf, email_addr.offset + 12, email_addr.offset + 16)), LAMBDA expiry:
    Try(UnpackU32(Slice(buf, email_addr.offset + 16, email_addr.offset + 20)), LAMBDA nxdomain_ttl:
    [status |-> "ok",
     data |-> [kind          |-> "SOA",
               name_server   |-> name_server.decoded_,
               email_addr    |-> email_addr.decoded_,
               serial_number |-> serial_number.value,
               refresh       |-> refresh.value,
               retry         |-> retry.value,
               expiry        |-> expiry.value,
               nxdomain_ttl  |-> nxdomain_ttl.value]])))))))

\* struct.unpack('!B', b)[0]
UnpackU8(b) ==
    IF Len(b) # 1 THEN Raise("struct.error") ELSE [status |-> "ok", value |-> b[1]]

\* _TXTResourceData.__init__
TXTResourceData(buf, offset_) ==
    Try(UnpackU8(Slice(buf, offset_, offset_ + 1)), LAMBDA length:
    Try(Utf8Decode(Slice(buf, offset_ + 1, offset_ + 1 + length.value)), LAMBDA text:
    [status |-> "ok", data |-> [kind |-> "TXT", text |-> text.str]]))

\* _MXResourceData.__init__
MXResourceData(buf, offset_) ==
    Try(decode_number(Slice(buf, offset_, offset_ + 2)), LAMBDA preference:
    Try(decode_name(buf, offset_ + 2), LAMBDA name:
    [status |-> "ok",
     data |-> [kind |-> "MX", preference |-> preference.value,
               name |-> name.decoded_]]))

\* _CNAMEResourceData.__init__
CNAMEResourceData(buf, offset_) ==
    Try(decode_name(buf, offset_), LAMBDA name:
    [status |-> "ok", data |-> [kind |-> "CNAME", cname |-> name.decoded_]])

-----------------------------------------------------------------------------
(* _ResourceRecord *)

\* _ResourceRecord.__init__
ResourceRecord(name, type_, length, data, ttl, class_) ==
    [name |-> name, type_ |-> type_, class_ |-> class_, ttl |-> ttl,
     length |-> length, data |-> data]

\* _ResourceRecord._decode_data
decode_data(buf, type_, length, offset_) ==
    IF type_ = RRType.A THEN AResourceData(Slice(buf, offset_, offset_ + length))
    ELSE IF type_ = RRType.AAAA THEN AAAAResourceData(Slice(buf, offset_, offset_ + length))
    ELSE IF type_ = RRType.PTR THEN PTRResourceData(Slice(buf, offset_, offset_ + length))
    ELSE IF type_ = RRType.NS THEN NSResourceData(buf, offset_)
    ELSE IF type_ = RRType.SOA THEN SOAResourceData(buf, offset_)
    ELSE IF type_ = RRType.TXT THEN TXTResourceData(buf, offset_)
    ELSE IF type_ = RRType.MX THEN MXResourceData(buf, offset_)
    ELSE IF type_ = RRType.CNAME THEN CNAMEResourceData(buf, offset_)
    ELSE [status |-> "ok", data |-> None]

\* a variant that does not step over the payload
RecordEndBeforeData(after_name, length) == after_name + 2 + 2 + 4 + 2

\* a variant that does not step over the data-length field
RecordEndShortOfLengthField(after_name, length) == after_name + 2 + 2 + 4 + length

\* the offset _ResourceRecord.from_bytes returns: over TYPE, CLASS, TTL, RDLENGTH
\* and length bytes from the end of the owner name
RecordEnd(after_name, length) == after_name + 2 + 2 + 4 + 2 + length

\* _ResourceRecord.from_bytes
ResourceRecord_from_bytes(buf, beginning) ==
    Try(decode_name(buf, beginning), LAMBDA name:
    Try(decode_number(Slice(buf, name.offset, name.offset + 2)), LAMBDA type_number:
    Try(EnumOf(RRType, type_number.value), LAMBDA type_:
    Try(decode_number(Slice(buf, name.offset + 2, name.offset + 4)), LAMBDA class_number:
    Try(EnumOf(RRClass, class_number.value), LAMBDA class_:
    Try(UnpackU32(Slice(buf, name.offset + 4, name.offset + 8)), LAMBDA ttl:
    Try(decode_number(Slice(buf, name.offset + 8, name.offset + 10)), LAMBDA length:
    Try(decode_data(buf, type_.value, length.value, name.offset + 10), LAMBDA data:
    [status |-> "ok",
     resource_record |-> ResourceRecord(name.decoded_, type_.value, length.value,
                                        data.data, ttl.value, class_.value),
     offset |-> RecordEnd(name.offset, length.value)]))))))))

-----------------------------------------------------------------------------
(* The buffers handed to Answer.from_bytes *)

MaxQuestions == 1
MaxAnswers == 1
MaxAuthorities == 1
MaxAdditions == 1
MaxDamagedRecords == 1

SeqsUpTo(S, n) == UNION {[1..k -> S] : k \in 0..n}

AnswerTypes == {RRType.A, RRType.AAAA, RRType.CNAME, RRType.TXT}
AuthorityTypes == {RRType.NS, RRType.SOA}
AdditionalTypes == {RRType.MX, RRType.PTR}

\* a two-byte compression pointer to offset 12, where the first name of a message starts
PointerTo12 == <<192, 12>>

\* the payload of a well-formed record of each type; "a" is the name at offset 12
WireData(type_) ==
    IF type_ = RRType.A THEN <<10, 0, 0, 1>>
    ELSE IF type_ = RRType.AAAA THEN [i \in 1..16 |-> 32 + i]
    ELSE IF type_ = RRType.PTR THEN <<1, 98, 0>>
    ELSE IF type_ = RRType.NS THEN PointerTo12
    ELSE IF type_ = RRType.CNAME THEN <<1, 98>> \o PointerTo12
    ELSE IF type_ = RRType.MX THEN <<0, 10, 1, 109>> \o PointerTo12
    ELSE IF type_ = RRType.TXT THEN <<2, 104, 105>>
    ELSE PointerTo12 \o <<1, 98>> \o PointerTo12 \o [i \in 1..20 |-> i]

\* a well-formed record: NAME TYPE CLASS TTL RDLENGTH RDATA
WireRecord(owner, type_) ==
    owner \o PackU16(type_) \o PackU16(RRClass.IN) \o <<0, 0, 1, 44>>
          \o PackU16(Len(WireData(type_))) \o WireData(type_)

\* the i-th question of a message, as _Question.to_bytes writes it
WireQuestion(i) ==
    Question_to_bytes(Question(<<96 + i>>, IF i % 2 = 1 THEN RRType.A ELSE RRType.MX)).bytes

WireHeader(qd, an, ns, ar) ==
    Header_to_bytes(Header(4660, MessageType.RESPONSE, qd, QueryType.STANDARD, TRUE,
                           FALSE, TRUE, TRUE, ResponseType.NO_ERROR, an, ns, ar)).bytes

\* a well-formed response: the sections back to back, owner names compressed
\* when there is a question for them to point at
Message(qd, an, ns, ar) ==
    LET owner == IF qd = 0 THEN <<1, 97, 0>> ELSE PointerTo12
        recs  == an \o ns \o ar
    IN  WireHeader(qd, Len(an), Len(ns), Len(ar))
        \o Concat([i \in 1..qd |-> WireQuestion(i)])
        \o Concat([i \in 1..Len(recs) |-> WireRecord(owner, recs[i])])

\* the section contents of the messages: question count, answer, authority
\* and additional record types
MessageShapes ==
    (0..MaxQuestions) \X SeqsUpTo(AnswerTypes, MaxAnswers)
        \X SeqsUpTo(AuthorityTypes, MaxAuthorities)
        \X SeqsUpTo(AdditionalTypes, MaxAdditions)

WellFormedMessages == {Message(t[1], t[2], t[3], t[4]) : t \in MessageShapes}

\* the well-formed messages that are cut short or damaged below
DamagedBase ==
    {Message(t[1], t[2], t[3], t[4]) :
        t \in {u \in MessageShapes :
                  Len(u[2]) + Len(u[3]) + Len(u[4]) <= MaxDamagedRecords}}

\* every proper prefix of a well-formed message
TruncatedMessages ==
    UNION {{SubSeq(m, 1, n) : n \in 0..(Len(m) - 1)} : m \in DamagedBase}

CorruptBytes == {0, 19, 192}

\* a well-formed message with one byte overwritten
CorruptedMessages ==
    UNION {{[m EXCEPT ![p] = v] : p \in 1..Len(m), v \in CorruptBytes} : m \in DamagedBase}

\* names whose compression pointers lead back to themselves
CyclicMessages ==
    {WireHeader(1, 0, 0, 0) \o n \o <<0, 1, 0, 1>> :
        n \in {<<192, 12>>, <<192, 14, 192, 12>>, <<1, 97, 192, 12>>,
               <<1, 97, 192, 14>>}}
    \cup {WireHeader(0, 1, 0, 0) \o WireRecord(<<0>>, RRType.NS)
            \o <<1, 97, 0, 0, 12, 0, 1, 0, 0, 0, 0, 0, 2, 192, 40>>}

Inputs == WellFormedMessages \cup TruncatedMessages \cup CorruptedMessages
          \cup CyclicMessages

-----------------------------------------------------------------------------
(* Answer.from_bytes, one step per decode call *)

\* the ranges of the four for loops
QuestionRange(h) == h.question_count
\* a variant that decodes as many answers as the header counts authorities
AnswerRangeByAuthorityCount(h) == h.authority_count
AnswerRange(h) == h.answer_count
AuthorityRange(h) == h.authority_count
AdditionalRange(h) == h.additional_count

\* where a decode call leaves Answer.from_bytes: at the next pass of the same
\* for loop, inside the while loop of _decode_name for ever, or in the except clause
After(r, section) ==
    IF r.status = "ok" THEN section
    ELSE IF r.status = "loop" THEN "name_loop"
    ELSE "error"

Cursor(r) ==
    IF r.status = "loop" THEN [buf |-> r.buf, index |-> r.index, at |-> "while"]
    ELSE name_cursor

Init ==
    /\ in_bytes = <<>>
    /\ pc = "idle"
    /\ offset = 0
    /\ header = None
    /\ questions = <<>>
    /\ answers = <<>>
    /\ authorities = <<>>
    /\ additions = <<>>
    /\ name_cursor = None
    /\ arg = None
    /\ ret = None

\* Answer.from_bytes(in_bytes) is called with a received buffer
Call ==
    /\ pc = "idle"
    /\ in_bytes' \in Inputs
    /\ pc' = "header"
    /\ UNCHANGED <<offset, header, questions, answers, authorities, additions,
                   name_cursor, arg, ret>>

\* header, offset = <r>
HeaderDecoded(r) ==
    /\ pc' = After(r, "questions")
    /\ header' = IF r.status = "ok" THEN r.header ELSE header
    /\ offset' = IF r.status = "ok" THEN r.offset ELSE offset

DecodeHeader ==
    /\ pc = "header"
    /\ \E r \in {Header_from_bytes(in_bytes, 0)} : HeaderDecoded(r)
    /\ UNCHANGED <<in_bytes, questions, answers, authorities, additions,
                   name_cursor, arg, ret>>

\* question, offset = <r>; questions.append(question)
QuestionDecoded(r) ==
    /\ pc' = After(r, "questions")
    /\ questions' = IF r.status = "ok" THEN Append(questions, r.question)
                    ELSE questions
    /\ offset' = IF r.status = "ok" THEN r.offset ELSE offset
    /\ name_cursor' = Cursor(r)

DecodeQuestion ==
    /\ pc = "questions"
    /\ Len(questions) < QuestionRange(header)
    /\ \E r \in {Question_from_bytes(in_bytes, offset)} : QuestionDecoded(r)
    /\ UNCHANGED <<in_bytes, header, answers, authorities, additions, arg, ret>>

EndQuestions ==
    /\ pc = "questions"
    /\ Len(questions) >= QuestionRange(header)
    /\ pc' = "answers"
    /\ UNCHANGED <<in_bytes, offset, header, questions, answers, authorities,
                   additions, name_cursor, arg, ret>>

\* answer, offset = <r>; answers.append(answer)
AnswerDecoded(r) ==
    /\ pc' = After(r, "answers")
    /\ answers' = IF r.status = "ok" THEN Append(answers, r.resource_record)
                  ELSE answers
    /\ offset' = IF r.status = "ok" THEN r.offset ELSE offset
    /\ name_cursor' = Cursor(r)

DecodeAnswer ==
    /\ pc = "answers"
    /\ Len(answers) < AnswerRange(header)
    /\ \E r \in {ResourceRecord_from_bytes(in_bytes, offset)} : AnswerDecoded(r)
    /\ UNCHANGED <<in_bytes, header, questions, authorities, additions, arg, ret>>

EndAnswers ==
    /\ pc = "answers"
    /\ Len(answers) >= AnswerRange(header)
    /\ pc' = "authorities"
    /\ UNCHANGED <<in_bytes, offset, header, questions, answers, authorities,
                   additions, name_cursor, arg, ret>>

\* authority, offset = <r>; authorities.append(authority)
AuthorityDecoded(r) ==
    /\ pc' = After(r, "authorities")
    /\ authorities' = IF r.status = "ok" THEN Append(authorities, r.resource_record)
                      ELSE authorities
    /\ offset' = IF r.status = "ok" THEN r.offset ELSE offset
    /\ name_cursor' = Cursor(r)

DecodeAuthority ==
    /\ pc = "authorities"
    /\ Len(authorities) < AuthorityRange(header)
    /\ \E r \in {ResourceRecord_from_bytes(in_bytes, offset)} : AuthorityDecoded(r)
    /\ UNCHANGED <<in_bytes, header, questions, answers, additions, arg, ret>>

EndAuthorities ==
    /\ pc = "authorities"
    /\ Len(authorities) >= AuthorityRange(header)
    /\ pc' = "additions"
    /\ UNCHANGED <<in_bytes, offset, header, questions, answers, authorities,
                   additions, name_cursor, arg, ret>>

\* additional, offset = <r>; additions.append(additional)
AdditionalDecoded(r) ==
    /\ pc' = After(r, "additions")
    /\ additions' = IF r.status = "ok" THEN Append(additions, r.resource_record)
                    ELSE additions
    /\ offset' = IF r.status = "ok" THEN r.offset ELSE offset
    /\ name_cursor' = Cursor(r)

DecodeAdditional ==
    /\ pc = "additions"
    /\ Len(additions) < AdditionalRange(header)
    /\ \E r \in {ResourceRecord_from_bytes(in_bytes, offset)} : AdditionalDecoded(r)
    /\ UNCHANGED <<in_bytes, header, questions, answers, authorities, arg, ret>>

\* return cls(header, questions, answers, authorities, additions)
ReturnAnswer ==
    /\ pc = "additions"
    /\ Len(additions) >= AdditionalRange(header)
    /\ pc' = "done"
    /\ UNCHANGED <<in_bytes, offset, header, questions, answers, authorities,
                   additions, name_cursor, arg, ret>>

\* the test of the while loop of _decode_name, in a loop that never exits
NameLoopTest ==
    /\ pc = "name_loop"
    /\ name_cursor.at = "while"
    /\ name_cursor.index < Len(name_cursor.buf)
    /\ name_cursor.buf[name_cursor.index + 1] # 0
    /\ name_cursor' = [name_cursor EXCEPT !.at = "body"]
    /\ UNCHANGED <<in_bytes, pc, offset, header, questions, answers, authorities,
                   additions, arg, ret>>

\* the body of the while loop of _decode_name, in a loop that never exits
NameLoopPass ==
    /\ pc = "name_loop"
    /\ name_cursor.at = "body"
    /\ name_cursor' =
           [name_cursor EXCEPT
               !.index = NameLoopBody(name_cursor.buf, name_cursor.index, 1).index,
               !.at = "while"]
    /\ UNCHANGED <<in_bytes, pc, offset, header, questions, answers, authorities,
                   additions, arg, ret>>

Next ==
    \/ Call
    \/ DecodeHeader
    \/ DecodeQuestion
    \/ EndQuestions
    \/ DecodeAnswer
    \/ EndAnswers
    \/ DecodeAuthority
    \/ EndAuthorities
    \/ DecodeAdditional
    \/ ReturnAnswer
    \/ NameLoopTest
    \/ NameLoopPass

Spec == Init /\ [][Next]_vars

\* the buffers of the termination check: the names that lead back to
\* themselves, and the well-formed messages with a record in every section
TerminationInputs ==
    CyclicMessages
    \cup {Message(t[1], t[2], t[3], t[4]) :
            t \in {u \in MessageShapes : u[2] # <<>> /\ u[3] # <<>> /\ u[4] # <<>>}}

CallForTermination ==
    /\ pc = "idle"
    /\ in_bytes' \in TerminationInputs
    /\ pc' = "header"
    /\ UNCHANGED <<offset, header, questions, answers, authorities, additions,
                   name_cursor, arg, ret>>

NextForTermination ==
    \/ CallForTermination
    \/ DecodeHeader
    \/ DecodeQuestion
    \/ EndQuestions
    \/ DecodeAnswer
    \/ EndAnswers
    \/ DecodeAuthority
    \/ EndAuthorities
    \/ DecodeAdditional
    \/ ReturnAnswer
    \/ NameLoopTest
    \/ NameLoopPass

\* a call that has not returned or raised keeps running: the interpreter
\* always takes the next step of a running call
FairSpec == Init /\ [][NextForTermination]_vars /\ WF_vars(NextForTermination)

-----------------------------------------------------------------------------
(* Calls of the single functions.  arg holds the arguments of the call in  *)
(* progress and ret what the calls made so far returned or raised.         *)

Others == <<in_bytes, offset, header, questions, answers, authorities, additions, name_cursor>>

\* where a call goes on to: returned, raised, or caught in an endless loop
Outcome(r, returned, raised, looping) ==
    IF r.status = "ok" THEN returned
    ELSE IF r.status = "loop" THEN looping
    ELSE raised

(* _encode_number, then _decode_number on what it returned *)

NumberSpread == 30

NumberInputs ==
    ((0 - NumberSpread)..NumberSpread)
    \cup {255, 256, 257, 32767, 32768}
    \cup ((MAX_DOUBLE_BYTE_NUMBER - NumberSpread)..(MAX_DOUBLE_BYTE_NUMBER + NumberSpread))

CallEncodeNumber ==
    /\ pc = "idle"
    /\ \E number \in NumberInputs : arg' = [number |-> number]
    /\ pc' = "encode_number"
    /\ UNCHANGED <<ret, Others>>

NumberEncoded(r) ==
    /\ ret' = [encoded |-> r, decoded |-> None]
    /\ pc' = Outcome(r, "number_encoded", "number_raised", "number_raised")

EncodeNumber ==
    /\ pc = "encode_number"
    /\ \E r \in {encode_number(arg.number)} : NumberEncoded(r)
    /\ UNCHANGED <<arg, Others>>

DecodeNumber ==
    /\ pc = "number_encoded"
    /\ ret' = [ret EXCEPT !.decoded = decode_number(ret.encoded.bytes)]
    /\ pc' = "number_decoded"
    /\ UNCHANGED <<arg, Others>>

NextNumber == CallEncodeNumber \/ EncodeNumber \/ DecodeNumber

SpecNumber == Init /\ [][NextNumber]_vars

(* _decode_name on a buffer and a start offset *)

MaxNameBuf == 5

\* the terminator, two label lengths, a letter and the first byte of a pointer
NameAlphabet == {0, 1, 2, 97, 192}

\* "example" and a pointer to offset 20, ten bytes of something else, then
\* "com" and the terminator at offset 20
ExampleBuffer ==
    <<7, 101, 120, 97, 109, 112, 108, 101, 192, 20>>
    \o <<18, 52, 1, 0, 0, 1, 0, 0, 0, 0>>
    \o <<3, 99, 111, 109, 0>>

\* "b" and a pointer to offset 4, where a pointer leads on to "c" at offset 6
ChainedBuffer == <<1, 98, 192, 4, 192, 6, 1, 99, 0>>

NameBuffers == SeqsUpTo(NameAlphabet, MaxNameBuf) \cup {ExampleBuffer, ChainedBuffer}

CallDecodeName ==
    /\ pc = "idle"
    /\ \E buf \in NameBuffers : \E start \in 0..Len(buf) :
           arg' = [buf |-> buf, start |-> start]
    /\ pc' = "decode_name"
    /\ UNCHANGED <<ret, Others>>

NameDecoded(r) ==
    /\ ret' = r
    /\ pc' = Outcome(r, "name_decoded", "name_raised", "name_loops")

DecodeName ==
    /\ pc = "decode_name"
    /\ \E r \in {decode_name(arg.buf, arg.start)} : NameDecoded(r)
    /\ UNCHANGED <<arg, Others>>

NextDecodeName == CallDecodeName \/ DecodeName

SpecDecodeName == Init /\ [][NextDecodeName]_vars

(* _encode_name, then _decode_name at offset 0 of what it returned *)

MaxLabels == 2

Repeat(n, c) == [i \in 1..n |-> c]

\* the empty label, "a", "bc", "é", and labels of 63 and of 64 letters
LabelSamples == {<<>>, <<97>>, <<98, 99>>, <<233>>, Repeat(63, 97), Repeat(64, 97)}

NameInputs == {Join(labels) : labels \in SeqsUpTo(LabelSamples, MaxLabels) \ {<<>>}}

CallEncodeName ==
    /\ pc = "idle"
    /\ \E name \in NameInputs : arg' = [name |-> name]
    /\ pc' = "encode_name"
    /\ UNCHANGED <<ret, Others>>

NameEncoded(r) ==
    /\ ret' = [encoded |-> r, decoded |-> None]
    /\ pc' = Outcome(r, "name_encoded", "name_not_encoded", "name_not_encoded")

EncodeName ==
    /\ pc = "encode_name"
    /\ \E r \in {encode_name(arg.name)} : NameEncoded(r)
    /\ UNCHANGED <<arg, Others>>

EncodedNameDecoded(r) ==
    /\ ret' = [ret EXCEPT !.decoded = r]
    /\ pc' = Outcome(r, "name_round_trip", "name_not_decoded", "name_not_decoded")

DecodeEncodedName ==
    /\ pc = "name_encoded"
    /\ \E r \in {decode_name(ret.encoded.bytes, 0)} : EncodedNameDecoded(r)
    /\ UNCHANGED <<arg, Others>>

NextName == CallEncodeName \/ EncodeName \/ DecodeEncodedName

SpecName == Init /\ [][NextName]_vars

(* _Header.to_bytes, then _Header.from_bytes at offset 0 of what it returned *)

\* the ends and the middle of the range, with different high and low bytes
FieldSamples == {0, 258, MAX_DOUBLE_BYTE_NUMBER - 1}

Booleans == {TRUE, FALSE}

HeaderInputs ==
    {Header(t[1], t[2][1], t[3][1], t[2][2], t[4][1], t[4][2], t[4][3], t[4][4], t[2][3], t[3][2], t[3][3], t[3][4]) :
        t \in FieldSamples
              \X (Values(MessageType) \X Values(QueryType) \X Values(ResponseType))
              \X (FieldSamples \X FieldSamples \X FieldSamples \X FieldSamples)
              \X (Booleans \X Booleans \X Booleans \X Booleans)}

CallHeaderToBytes ==
    /\ pc = "idle"
    /\ arg' \in HeaderInputs
    /\ pc' = "header_to_bytes"
    /\ UNCHANGED <<ret, Others>>

HeaderEncoded(r) ==
    /\ ret' = [encoded |-> r, decoded |-> None]
    /\ pc' = Outcome(r, "header_encoded", "header_not_encoded", "header_not_encoded")

HeaderToBytes ==
    /\ pc = "header_to_bytes"
    /\ \E r \in {Header_to_bytes(arg)} : HeaderEncoded(r)
    /\ UNCHANGED <<arg, Others>>

EncodedHeaderDecoded(r) ==
    /\ ret' = [ret EXCEPT !.decoded = r]
    /\ pc' = Outcome(r, "header_round_trip", "header_not_decoded", "header_not_decoded")

HeaderFromBytes ==
    /\ pc = "header_encoded"
    /\ \E r \in {Header_from_bytes(ret.encoded.bytes, 0)} : EncodedHeaderDecoded(r)
    /\ UNCHANGED <<arg, Others>>

NextHeader == CallHeaderToBytes \/ HeaderToBytes \/ HeaderFromBytes

SpecHeader == Init /\ [][NextHeader]_vars

(* Query(hostname, rr_type, is_recursion_desired), Query.to_bytes, then    *)
(* _Header.from_bytes on the first 12 bytes                                *)

IdentifierSpread == 3

\* random.randint(0, 65535): any of the 65536 values; the ones drawn here
\* are those next to the two ends and two in between
get_identifier ==
    (0..IdentifierSpread) \cup {255, 4660}
    \cup ((65535 - IdentifierSpread)..65535)

\* "a", "a.bc" and "example.com"
Hostnames ==
    {<<97>>, <<97, 46, 98, 99>>,
     <<101, 120, 97, 109, 112, 108, 101, 46, 99, 111, 109>>}

\* Query.__init__
Query(identifier, hostname, rr_type, is_recursion_desired) ==
    [header   |-> Header(identifier, MessageType.QUERY, 1, QueryType.STANDARD, FALSE,
                         FALSE, is_recursion_desired, FALSE, ResponseType.NO_ERROR,
                         0, 0, 0),
     question |-> Question(hostname, rr_type)]

\* Query.to_bytes
Query_to_bytes(query) ==
    Try(Header_to_bytes(query.header), LAMBDA h:
    Try(Question_to_bytes(query.question), LAMBDA q:
    [status |-> "ok", bytes |-> h.bytes \o q.bytes]))

NewQuery ==
    /\ pc = "idle"
    /\ \E identifier \in get_identifier, hostname \in Hostnames,
          rr_type \in Values(RRType), is_recursion_desired \in Booleans :
           arg' = Query(identifier, hostname, rr_type, is_recursion_desired)
    /\ pc' = "query"
    /\ UNCHANGED <<ret, Others>>

QueryEncoded(r) ==
    /\ ret' = [encoded |-> r, decoded |-> None]
    /\ pc' = Outcome(r, "query_encoded", "query_not_encoded", "query_not_encoded")

QueryToBytes ==
    /\ pc = "query"
    /\ \E r \in {Query_to_bytes(arg)} : QueryEncoded(r)
    /\ UNCHANGED <<arg, Others>>

QueryHeaderDecoded(r) ==
    /\ ret' = [ret EXCEPT !.decoded = r]
    /\ pc' = Outcome(r, "query_header_decoded", "query_header_not_decoded", "query_header_not_decoded")

QueryHeaderFromBytes ==
    /\ pc = "query_encoded"
    /\ \E r \in {Header_from_bytes(Slice(ret.encoded.bytes, 0, 12), 0)} : QueryHeaderDecoded(r)
    /\ UNCHANGED <<arg, Others>>

NextQuery == NewQuery \/ QueryToBytes \/ QueryHeaderFromBytes

SpecQuery == Init /\ [][NextQuery]_vars

(* _ResourceRecord.from_bytes on a record that follows a header and a      *)
(* question for "a"                                                        *)

MaxRdLength == 5

\* a header and one question; the question's name "a" lies at offset 12
RecordPreamble == WireHeader(1, 1, 0, 0) \o WireQuestion(1)

RecordOwners == {PointerTo12, <<1, 98, 0>>}

\* RDATA bytes: none, a pointer to offset 12, the name "c", an address, a text
\* "hi", a text whose length byte says 5, a preference and a pointer, sixteen
\* bytes, and two pointers and five numbers
RecordPayloads ==
    {<<>>, PointerTo12, <<1, 99, 0>>, <<10, 0, 0, 1>>, <<2, 104, 105>>, <<5, 104>>,
     <<0, 10, 192, 12>>, WireData(RRType.AAAA), WireData(RRType.SOA)}

\* the bytes that follow the record
RecordTrailer == <<1, 100, 0>>

\* records of every type whose data-length field is the length of the RDATA
\* bytes or anything up to MaxRdLength
RecordBuffers ==
    {RecordPreamble \o t[1] \o PackU16(t[2]) \o PackU16(RRClass.IN) \o <<0, 0, 1, 44>>
                    \o PackU16(t[4]) \o t[3] \o RecordTrailer :
        t \in {u \in RecordOwners \X Values(RRType) \X RecordPayloads \X (0..24) :
                  u[4] <= MaxRdLength \/ u[4] = Len(u[3])}}

CallRecordFromBytes ==
    /\ pc = "idle"
    /\ \E buf \in RecordBuffers : arg' = [buf |-> buf, beginning |-> Len(RecordPreamble)]
    /\ pc' = "record_from_bytes"
    /\ UNCHANGED <<ret, Others>>

RecordDecoded(r) ==
    /\ ret' = r
    /\ pc' = Outcome(r, "record_decoded", "record_raised", "record_loops")

RecordFromBytes ==
    /\ pc = "record_from_bytes"
    /\ \E r \in {ResourceRecord_from_bytes(arg.buf, arg.beginning)} : RecordDecoded(r)
    /\ UNCHANGED <<arg, Others>>

NextRecord == CallRecordFromBytes \/ RecordFromBytes

SpecRecord == Init /\ [][NextRecord]_vars

-----------------------------------------------------------------------------
(* Claims about Answer.from_bytes *)

Returned == pc = "done"
RaisedInvalidAnswer == pc = "error"

\* C1: a buffer that ends before the bytes its header counts and its records'
\* fields declare (here: a proper prefix of a well-formed message) never makes
\* Answer.from_bytes return an Answer
C1_TruncatedNeverReturns == in_bytes \in TruncatedMessages => ~Returned

\* the record types of a decoded section
TypesOf(records) == [i \in 1..Len(records) |-> records[i].type_]

\* C2: when Answer.from_bytes returns, the four lists are as long as the four
\* header counts say, each section was completed before the next one was begun,
\* and a well-formed message is the layout of exactly the question count and
\* the record types found in the three record sections
C2_SectionsMatchCounts ==
    /\ pc \in {"answers", "authorities", "additions", "done"}
          => Len(questions) = header.question_count
    /\ pc \in {"authorities", "additions", "done"}
          => Len(answers) = header.answer_count
    /\ pc \in {"additions", "done"} => Len(authorities) = header.authority_count
    /\ Returned => Len(additions) = header.additional_count
    /\ pc \in {"idle", "header", "questions"} => answers = <<>>
    /\ pc \in {"idle", "header", "questions", "answers"} => authorities = <<>>
    /\ pc \in {"idle", "header", "questions", "answers", "authorities"}
          => additions = <<>>
    /\ (Returned /\ in_bytes \in WellFormedMessages) =>
          in_bytes = Message(Len(questions), TypesOf(answers),
                             TypesOf(authorities), TypesOf(additions))

C2_Witness ==
    /\ Returned
    /\ Len(questions) = 1
    /\ TypesOf(answers) = <<RRType.CNAME>>
    /\ TypesOf(authorities) = <<RRType.SOA>>
    /\ TypesOf(additions) = <<RRType.MX>>

\* C3: for every input buffer Answer.from_bytes eventually returns an Answer or
\* raises InvalidAnswer
C3_EventuallyFinishes == <>(Returned \/ RaisedInvalidAnswer)

\* C9: every question or record decode that returns moves the running offset
\* strictly forward, and at the return of Answer.from_bytes on a well-formed
\* message the offset is the length of the buffer
C9_OffsetMonotonic ==
    [][/\ (\/ questions' # questions
           \/ answers' # answers
           \/ authorities' # authorities
           \/ additions' # additions) => offset' > offset
       /\ (pc' = "done" /\ in_bytes' \in WellFormedMessages)
              => offset' = Len(in_bytes')]_vars

C9_Witness ==
    /\ Returned
    /\ in_bytes \in WellFormedMessages
    /\ Len(questions) = 1 /\ Len(answers) = 1 /\ Len(authorities) = 1
    /\ offset = Len(in_bytes)
    /\ offset > 12

-----------------------------------------------------------------------------
(* Claims about _decode_name, checked under SpecDecodeName *)

NameCallEnded == pc \in {"name_decoded", "name_raised", "name_loops"}

\* two calls end the same way: both return the same name, both raise the same
\* exception, or both never end
SameName(r1, r2) ==
    /\ r1.status = r2.status
    /\ r1.status = "ok" => r1.decoded_ = r2.decoded_
    /\ r1.status = "raise" => r1.exc = r2.exc

\* the absolute offset in the low 14 bits of the two bytes at index
Low14(buf, index) == (buf[index + 1] % 64) * 256 + buf[index + 2]

\* label, then "." and the rest when there is a rest
Dotted(label, rest) == IF rest = <<>> THEN label ELSE label \o <<46>> \o rest

\* r is what reading at a pointer gives: the name read at the pointer's target
FollowsPointer(buf, start, r) == SameName(r, decode_name(buf, Low14(buf, start)))

\* r is what reading at a label gives: the label, joined by a dot to the name
\* read right after it
ContinuesAfterLabel(buf, start, label, r, rest) ==
    /\ r.status = rest.status
    /\ r.status = "raise" => r.exc = rest.exc
    /\ r.status = "ok" => r.decoded_ = Dotted(label.str, rest.decoded_)

\* "example.com"
ExampleName == <<101, 120, 97, 109, 112, 108, 101, 46, 99, 111, 109>>

\* C4: _decode_name follows compression pointers transitively.  Read at a byte
\* with its top two bits set, the name is the name read at the offset in the
\* low 14 bits of the two bytes there; read at a label, it is the label
\* dot-joined with the name read after the label; read at a zero byte it is
\* empty.  "example" followed by the pointer C0 14 to "com" reads "example.com".
C4_PointersFollowed ==
    NameCallEnded =>
        /\ (arg.start + 1 < Len(arg.buf) /\ arg.buf[arg.start + 1] >= 192)
              => FollowsPointer(arg.buf, arg.start, ret)
        /\ (/\ arg.start < Len(arg.buf)
            /\ arg.buf[arg.start + 1] \in 1..191
            /\ Utf8Decode(Slice(arg.buf, arg.start + 1, arg.start + 1 + arg.buf[arg.start + 1])).status = "ok")
              => ContinuesAfterLabel(arg.buf, arg.start,
                     Utf8Decode(Slice(arg.buf, arg.start + 1, arg.start + 1 + arg.buf[arg.start + 1])),
                     ret,
                     decode_name(arg.buf, arg.start + 1 + arg.buf[arg.start + 1]))
        /\ (arg.start < Len(arg.buf) /\ arg.buf[arg.start + 1] = 0)
              => (ret.status = "ok" /\ ret.decoded_ = <<>>)
        /\ (arg.buf = ExampleBuffer /\ arg.start = 0)
              => (ret.status = "ok" /\ ret.decoded_ = ExampleName)

C4_Witness ==
    /\ pc = "name_decoded"
    /\ arg.buf = ExampleBuffer
    /\ arg.start = 0
    /\ ret.decoded_ = ExampleName

RECURSIVE ScanName(_, _)
\* the name as it lies at pos, labels stepped over and no pointer followed:
\* where its first pointer or its zero byte is
ScanName(buf, pos) ==
    IF pos >= Len(buf) THEN [stop |-> "end of buffer", pos |-> pos]
    ELSE IF buf[pos + 1] = 0 THEN [stop |-> "zero", pos |-> pos]
    ELSE IF buf[pos + 1] >= 192 THEN [stop |-> "pointer", pos |-> pos]
    ELSE ScanName(buf, pos + 1 + buf[pos + 1])

ReturnedOffsetIs(r, scan) ==
    /\ scan.stop # "end of buffer"
    /\ scan.stop = "pointer" => r.offset = scan.pos + 2
    /\ scan.stop = "zero" => r.offset = scan.pos + 1

\* C10: the offset _decode_name returns is fixed by the bytes of the name where
\* it lies at start: two bytes past the first pointer there if there is one
\* (pointers met after a jump do not change it), else one byte past the zero
\* byte that ends it
C10_ReturnedOffset ==
    pc = "name_decoded" => ReturnedOffsetIs(ret, ScanName(arg.buf, arg.start))

\* a name whose first pointer leads to a second pointer
C10_Witness ==
    /\ pc = "name_decoded"
    /\ ScanName(arg.buf, arg.start).stop = "pointer"
    /\ ScanName(arg.buf, arg.start).pos > arg.start
    /\ arg.buf[Low14(arg.buf, ScanName(arg.buf, arg.start).pos) + 1] >= 192
    /\ ret.offset = ScanName(arg.buf, arg.start).pos + 2

-----------------------------------------------------------------------------
(* Claims about the encoders and their decoders *)

\* every label of the dot-separated name is at most 63 bytes long
LabelsFit(name) == \A i \in 1..Len(Split(name)) : Len(Utf8Encode(Split(name)[i])) <= 63

\* C5: for a dot-separated name all of whose labels are at most 63 bytes long,
\* empty labels allowed, _encode_name returns and _decode_name at offset 0 of
\* its bytes returns the name
C5_NameRoundTrip ==
    (pc \in {"name_not_encoded", "name_not_decoded", "name_round_trip"} /\ LabelsFit(arg.name))
        => /\ pc = "name_round_trip"
           /\ ret.decoded.decoded_ = arg.name

ExpectedQueryHeader(identifier, is_recursion_desired) ==
    Header(identifier, MessageType.QUERY, 1, QueryType.STANDARD, FALSE, FALSE, is_recursion_desired, FALSE, ResponseType.NO_ERROR, 0, 0, 0)

\* C6: whichever identifier in 0..65535 a Query was built with, Query.to_bytes
\* returns, and _Header.from_bytes on its first 12 bytes gives the identifier,
\* QUERY, STANDARD, the recursion-desired flag asked for, the other flags
\* false, question count 1 and the other counts 0
C6_QueryHeaderRoundTrip ==
    /\ pc \notin {"query_not_encoded", "query_header_not_decoded"}
    /\ pc = "query_header_decoded" =>
          /\ ret.decoded.header.identifier \in 0..65535
          /\ ret.decoded.header =
                ExpectedQueryHeader(arg.header.identifier, arg.header.is_recursion_desired)

\* C7: for a header with identifier and counts in 0..65534 and valid enum
\* values and flags, _Header.to_bytes returns exactly 12 bytes whose flag bits
\* 6-4 are zero, and _Header.from_bytes of them at 0 returns a header equal in
\* all twelve fields and the offset 12
C7_HeaderRoundTrip ==
    /\ pc \notin {"header_not_encoded", "header_not_decoded"}
    /\ pc \in {"header_encoded", "header_round_trip"} =>
          /\ Len(ret.encoded.bytes) = 12
          /\ (ret.encoded.bytes[4] \div 16) % 8 = 0
    /\ pc = "header_round_trip" =>
          /\ ret.decoded.header = arg
          /\ DOMAIN ret.decoded.header = DOMAIN arg
          /\ Cardinality(DOMAIN arg) = 12
          /\ ret.decoded.offset = 12

\* every flag set, the largest opcode and response code, all counts different
C7_Witness ==
    /\ pc = "header_round_trip"
    /\ arg.is_authority_answer /\ arg.is_truncated
    /\ arg.is_recursion_desired /\ arg.is_recursion_available
    /\ arg.message_type = MessageType.RESPONSE
    /\ arg.query_type = QueryType.STATUS
    /\ arg.response_type = ResponseType.REFUSED
    /\ arg.identifier = 65534 /\ arg.question_count = 258
    /\ ret.decoded.header = arg

-----------------------------------------------------------------------------
(* Claims about _ResourceRecord.from_bytes, checked under SpecRecord *)

\* the offset just after the owner name that lies at beginning: past its first
\* pointer, or past its zero byte
AfterOwner(buf, beginning) ==
    IF ScanName(buf, beginning).stop = "pointer"
    THEN ScanName(buf, beginning).pos + 2
    ELSE ScanName(buf, beginning).pos + 1

\* the two-byte field that lies at offset at in buf
FieldAt(buf, at) == buf[at + 1] * 256 + buf[at + 2]

\* the record's TYPE and RDLENGTH fields and the offset of its first RDATA byte
TypeField(buf, beginning) == FieldAt(buf, AfterOwner(buf, beginning))
LengthField(buf, beginning) == FieldAt(buf, AfterOwner(buf, beginning) + 8)
DataOffset(buf, beginning) == AfterOwner(buf, beginning) + 10

\* C11: for every record _ResourceRecord.from_bytes decodes, the offset it
\* returns is the offset just after the owner name plus 10 plus the record's
\* data-length field, whatever the record type and whatever bytes the payload
\* decoder read
C11_RecordOffset ==
    pc = "record_decoded" =>
        /\ ret.offset = AfterOwner(arg.buf, arg.beginning) + 10
                            + LengthField(arg.buf, arg.beginning)
        /\ ret.resource_record.length = LengthField(arg.buf, arg.beginning)

\* a TXT record whose text is longer than its data-length field allows
C11_Witness ==
    /\ pc = "record_decoded"
    /\ ret.resource_record.type_ = RRType.TXT
    /\ Len(ret.resource_record.data.text) + 1 > ret.resource_record.length
    /\ ret.offset = DataOffset(arg.buf, arg.beginning) + ret.resource_record.length

RecordCallEnded == pc \in {"record_decoded", "record_raised", "record_loops"}

\* the name a CNAME, NS, PTR or MX payload holds
PayloadName(data) == IF data.kind = "CNAME" THEN data.cname ELSE data.name

\* r is a decoded record whose payload holds the name that read gave
HoldsName(r, read) ==
    /\ r.status = "ok"
    /\ PayloadName(r.resource_record.data) = read.decoded_

\* the RDATA bytes inside the window of the data-length field
DataWindow(buf, beginning) ==
    Slice(buf, DataOffset(buf, beginning),
          DataOffset(buf, beginning) + LengthField(buf, beginning))

\* C12: the payload decoders of CNAME, NS, SOA, TXT, MX and PTR read the whole
\* message from the absolute offset of the first payload byte, so a name in
\* the payload is the name _decode_name reads there in the whole message (a
\* PTR payload that is a pointer to an earlier name decodes to that name);
\* the A and AAAA decoders read the bytes inside the data-length window only
C12_PayloadReadsWholeMessage ==
    RecordCallEnded =>
        /\ (/\ TypeField(arg.buf, arg.beginning) \in {RRType.CNAME, RRType.NS, RRType.PTR}
            /\ decode_name(arg.buf, DataOffset(arg.buf, arg.beginning)).status = "ok")
              => HoldsName(ret, decode_name(arg.buf, DataOffset(arg.buf, arg.beginning)))
        /\ (/\ TypeField(arg.buf, arg.beginning) = RRType.MX
            /\ decode_name(arg.buf, DataOffset(arg.buf, arg.beginning) + 2).status = "ok")
              => HoldsName(ret, decode_name(arg.buf, DataOffset(arg.buf, arg.beginning) + 2))
        /\ (TypeField(arg.buf, arg.beginning) = RRType.SOA /\ ret.status = "ok")
              => ret.resource_record.data.name_server
                    = decode_name(arg.buf, DataOffset(arg.buf, arg.beginning)).decoded_
        /\ (TypeField(arg.buf, arg.beginning) = RRType.TXT /\ ret.status = "ok")
              => ret.resource_record.data.text
                    = Utf8Decode(Slice(arg.buf, DataOffset(arg.buf, arg.beginning) + 1,
                                       DataOffset(arg.buf, arg.beginning) + 1
                                           + arg.buf[DataOffset(arg.buf, arg.beginning) + 1])).str
        /\ TypeField(arg.buf, arg.beginning) = RRType.A
              => /\ ret.status = "ok" <=> Len(DataWindow(arg.buf, arg.beginning)) = 4
                 /\ ret.status = "ok" =>
                       ret.resource_record.data = AResourceData(DataWindow(arg.buf, arg.beginning)).data
        /\ TypeField(arg.buf, arg.beginning) = RRType.AAAA
              => /\ ret.status = "ok"
                 /\ ret.resource_record.data = AAAAResourceData(DataWindow(arg.buf, arg.beginning)).data

=============================================================================
